---- MODULE Spec2Model ----
(***************************************************************************)
(* Model of the Gmail auto reply bot (src/main.py): the polling loop of    *)
(* main(), the replied-senders ledger file, the shutdown flag and the      *)
(* collaborators (mail gateway, text generator, file system) whose calls   *)
(* may succeed or raise.                                                   *)
(***************************************************************************)
EXTENDS Naturals, Sequences, FiniteSets

VARIABLES
    REPLY_ONCE,          \* line 42: the reply-once toggle, read from the environment
    characters_dir,      \* persona names stored under CHARACTERS_DIR
    reply_json,          \* content of reply.json: Absent, NoKey or a message text
    ledger_exists,       \* os.path.exists(REPLIED_SENDERS_PATH)
    ledger_rows,         \* the rows of replied_senders.csv, in file order
    unread,              \* From headers of the messages the gateway lists as unread
    shutdown_requested,  \* line 46
    pc,                  \* position of the process in main()
    replied_senders,     \* main(): the in-memory set
    characters,          \* main(): the persona list
    fallback_message,    \* main(): the fallback text
    messages,            \* main(): the list returned by the current poll
    idx,                 \* main(): position of msg_meta in messages (1-based)
    sender,              \* main(): sender of the candidate
    character,           \* main(): persona drawn for the candidate
    gen_out,             \* what the text generator returned for the candidate
    ai_reply,            \* main(): the reply body
    used_fallback,       \* main(): the fallback flag
    tick,                \* main(): ticks slept in the current sleep phase
    sent_count,          \* history: replies the gateway accepted, per recipient
    run_count,           \* history: the same, counted since the process started
    last_sent,           \* history: the send the gateway accepted for the candidate
    sd_at,               \* history: phase of the loop when shutdown was requested
    polls_after_sd,      \* history: polls started since shutdown was requested
    ticks_after_sd       \* history: sleep ticks started since shutdown was requested

vars == <<REPLY_ONCE, characters_dir, reply_json, ledger_exists, ledger_rows,
          unread, shutdown_requested, pc, replied_senders, characters,
          fallback_message, messages, idx, sender, character, gen_out,
          ai_reply, used_fallback, tick, sent_count, run_count,
          last_sent, sd_at, polls_after_sd, ticks_after_sd>>

config == <<REPLY_ONCE, characters_dir, reply_json>>
disk   == <<ledger_exists, ledger_rows>>
loaded == <<replied_senders, characters, fallback_message>>
locals == <<sender, character, gen_out, ai_reply, used_fallback, last_sent>>
ghosts == <<sent_count, run_count, sd_at, polls_after_sd, ticks_after_sd>>

----------------------------------------------------------------------------
(* Bounds of the model *)

\* Longest list of unread messages the gateway holds.
MaxUnread == 2

\* The gateway serves the process until it has accepted this many replies
\* over all runs, or this many in one run; from then on its calls raise.
MaxSends == 3
MaxRunSends == 2

\* line 33: seconds of the responsive sleep (CHECK_INTERVAL in the environment).
CHECK_INTERVAL == 2

----------------------------------------------------------------------------
(* Values *)

None   == "None"        \* Python's None, where a string is expected
NoText == <<"None">>    \* Python's None, where a text is expected
Absent == "Absent"      \* a file that does not exist
NoKey  == "NoKey"       \* reply.json without a "message" key

\* line 79: profile['emailAddress']
my_email == "me@bot"

\* Addresses of correspondents.
Senders == {"a@x", "b@x"}

\* The From header of a message: an address, the bot's own address, a value
\* parseaddr cannot parse, or no From header at all.
Garbled == "garbled"
FromHeaders == Senders \cup {my_email, Garbled, None}

\* Everything get_sender can return.
Addresses == Senders \cup {my_email, "", None}

\* Texts are sequences of characters.
Chars == {" ", "x"}

\* The texts the generator returns: empty, blank, plain, padded with blanks.
GenTexts == {<<>>, <<" ">>, <<"x">>, <<" ", "x", " ">>}

\* lines 128 and 131: the two hardcoded default messages.
DefaultNoFile == <<"T", "1">>
DefaultNoKey  == <<"T", "2">>
CustomMessage == <<"O", "O", "O">>

\* line 167: the synthetic default persona (by name).
DefaultCharacter == "Default"
PersonaFiles == {"Holmes", "Yoda"}

\* A file under CHARACTERS_DIR that ends in .json and cannot be opened or is
\* not well-formed JSON.
Malformed == "Malformed"

\* line 109: the header row, and a record row (the timestamp column is left out).
HeaderRow == [sender_email |-> "sender_email", character_used |-> "character_used",
              fallback_used |-> "fallback_used"]

Row(s, name, fb) ==
    [sender_email |-> s, character_used |-> name,
     fallback_used |-> IF fb THEN "Yes" ELSE "No"]

----------------------------------------------------------------------------
(* Pure functions of the program *)

\* str.strip() of line 139.
RECURSIVE LStrip(_)
LStrip(t) == IF t # <<>> /\ Head(t) = " " THEN LStrip(Tail(t)) ELSE t

RECURSIVE RStrip(_)
RStrip(t) ==
    IF t # <<>> /\ t[Len(t)] = " " THEN RStrip(SubSeq(t, 1, Len(t) - 1)) ELSE t

Strip(t) == RStrip(LStrip(t))

\* lines 90-95: get_sender; parseaddr yields '' for what it cannot parse.
get_sender(from) ==
    IF from = None THEN None
    ELSE IF from = Garbled THEN ""
    ELSE from

\* Python's `not x`: true of None and of the empty string.
Falsy(s) == s = None \/ s = ""
FalsyText(t) == t = NoText \/ t = <<>>

\* Variants of the filter with one of its three tests dropped or changed.
ShouldSkipNoLedger(s, once, replied) == Falsy(s) \/ s = my_email
ShouldSkipNoSelf(s, once, replied) == Falsy(s) \/ (once /\ s \in replied)
ShouldSkipAlwaysOnce(s, once, replied) ==
    Falsy(s) \/ s \in replied \/ s = my_email

\* line 175: the filter of the candidate loop.
ShouldSkip(s, once, replied) ==
    Falsy(s) \/ (once /\ s \in replied) \/ s = my_email

\* lines 133-142: generate_ai_reply; out is the completion text or GenError.
GenError == <<"GenError">>

\* Variant that returns the completion text as it came.
generate_ai_reply_unstripped(out) == IF out = GenError THEN NoText ELSE out

generate_ai_reply(out) == IF out = GenError THEN NoText ELSE Strip(out)

\* lines 192-195: the fallback policy.
UseFallback(reply) == FalsyText(reply)

\* Variant that hands on whatever the generator gave.
ReplyBodyNoFallback(reply, fallback) == reply

ReplyBody(reply, fallback) == IF UseFallback(reply) THEN fallback ELSE reply

\* Variant that does not skip the first row.
load_replied_senders_keeps_first(exists, rows) ==
    IF ~exists THEN {}
    ELSE {rows[i].sender_email : i \in 1..Len(rows)}

\* lines 97-102: load_replied_senders.
load_replied_senders(exists, rows) ==
    IF ~exists THEN {}
    ELSE {rows[i].sender_email : i \in 2..Len(rows)}

\* lines 107-115: the rows save_replied_sender writes.
SavedRows(rows, new_file, s, name, fb) ==
    (IF new_file THEN rows \o <<HeaderRow>> ELSE rows) \o <<Row(s, name, fb)>>

\* Variant without the default persona of lines 165-167.
load_characters_no_default(dir) == dir

\* lines 162-167: load_characters and the default persona.
load_characters(dir) == IF dir = {} THEN {DefaultCharacter} ELSE dir

\* lines 122-123: open or json.load raises on such a file; load_characters
\* has no handler, nor has main() at line 162.
load_characters_raises(dir) == Malformed \in dir

\* lines 126-131: load_fallback_message.
load_fallback_message(json) ==
    IF json = Absent THEN DefaultNoFile
    ELSE IF json = NoKey THEN DefaultNoKey
    ELSE json

\* Variant that sleeps the whole interval.
SleepDoneUnresponsive(t, flag) == t >= CHECK_INTERVAL

\* lines 207-209: whether the sleep loop is left before the next tick.
SleepDone(t, flag) == t >= CHECK_INTERVAL \/ flag

----------------------------------------------------------------------------
(* Initial state: the process has been launched, nothing is loaded yet *)

NoSend == [to |-> None, body |-> NoText, signature |-> None]

Total(count) == count["a@x"] + count["b@x"] + count[my_email] + count[""] + count[None]

\* Positions at which a candidate is in flight: it passed the filter of
\* line 175 and its record is not yet written (lines 178-201).
InFlight == {"generate", "send", "save"}

\* Phases of the loop in the sense of the state machine of main().
Phase(p) ==
    IF p \in {"sleep_check", "sleep_tick"} THEN "Sleeping"
    ELSE IF p \in InFlight THEN "Candidate"
    ELSE IF p = "poll" THEN "Polling"
    ELSE "Working"

\* Variant in which the signal abandons the candidate in flight, as the
\* default SIGINT disposition (KeyboardInterrupt, lines 212-213) would.
HandlerReturn_abandons(p) == IF p \in InFlight THEN "while" ELSE p

\* lines 52-60: the handler installed by signal.signal only sets the flag
\* and returns; the main thread resumes where it was.
HandlerReturn(p) == p

\* The gateway still serves the process.
GatewayUp == Total(sent_count) < MaxSends /\ Total(run_count) < MaxRunSends

\* The configuration the process is launched with: reply-once on or off, in
\* an installation left as shipped (no persona files, no reply.json) or in a
\* customised one (persona files and a reply.json with a message).
InitConfig ==
    /\ REPLY_ONCE \in BOOLEAN
    /\ \/ characters_dir = {} /\ reply_json = Absent
       \/ characters_dir = PersonaFiles /\ reply_json = CustomMessage

\* lines 46-47 and the entry of main(): a process that has just been launched.
InitProcess ==
    /\ unread = <<>>
    /\ shutdown_requested = FALSE
    /\ pc = "start"
    /\ replied_senders = {}
    /\ characters = {}
    /\ fallback_message = <<>>
    /\ messages = <<>>
    /\ idx = 0
    /\ sender = None
    /\ character = None
    /\ gen_out = NoText
    /\ ai_reply = NoText
    /\ used_fallback = FALSE
    /\ tick = 0
    /\ sent_count = [a \in Addresses |-> 0]
    /\ run_count = [a \in Addresses |-> 0]
    /\ last_sent = NoSend
    /\ sd_at = None
    /\ polls_after_sd = 0
    /\ ticks_after_sd = 0

\* The ledger files earlier runs can leave behind (each is reached under
\* SpecRestart): no file, a file created but never
\* written, a file with its header and one record, a file whose first
\* record was written without a header.
OldRow == Row("a@x", DefaultCharacter, FALSE)
InitLedgers ==
    {<<FALSE, <<>>>>, <<TRUE, <<>>>>, <<TRUE, <<HeaderRow, OldRow>>>>,
     <<TRUE, <<OldRow>>>>}

\* One run of the process, started over any of these ledgers.
Init ==
    /\ InitConfig
    /\ \E l \in InitLedgers : ledger_exists = l[1] /\ ledger_rows = l[2]
    /\ InitProcess

\* The first launch of a fresh installation: no persona files, no
\* reply.json and no ledger file yet.
InitFirst ==
    /\ REPLY_ONCE \in BOOLEAN
    /\ characters_dir = {}
    /\ reply_json = Absent
    /\ ledger_exists = FALSE
    /\ ledger_rows = <<>>
    /\ InitProcess

\* The first launch of an installation whose persona directory holds any
\* of the persona files, with or without a malformed file among them.
InitPersonas ==
    /\ REPLY_ONCE \in BOOLEAN
    /\ characters_dir \in SUBSET (PersonaFiles \cup {Malformed})
    /\ reply_json = Absent
    /\ ledger_exists = FALSE
    /\ ledger_rows = <<>>
    /\ InitProcess

----------------------------------------------------------------------------
(* The process *)

\* The locals of the candidate are not read again once the candidate is
\* left (each is assigned before its next use), so they are reset there.
ForgetCandidate ==
    /\ sender' = None
    /\ character' = None
    /\ gen_out' = NoText
    /\ ai_reply' = NoText
    /\ used_fallback' = FALSE
    /\ last_sent' = NoSend

\* Variant in which the exception leaves main().
Raise_escapes ==
    /\ pc' = "stopped"
    /\ messages' = <<>>
    /\ idx' = 0
    /\ ForgetCandidate

\* lines 214-216: an exception leaves the candidate loop for the handler.
Raise ==
    /\ pc' = "except"
    /\ messages' = <<>>
    /\ idx' = 0
    /\ ForgetCandidate

\* lines 159-167: authentication succeeded; ledger, personas and fallback loaded.
Startup ==
    /\ pc = "start"
    /\ ~load_characters_raises(characters_dir)
    /\ replied_senders' = load_replied_senders(ledger_exists, ledger_rows)
    /\ characters' = load_characters(characters_dir)
    /\ fallback_message' = load_fallback_message(reply_json)
    /\ pc' = "while"
    /\ UNCHANGED <<config, disk, unread, shutdown_requested, messages, idx,
                   locals, tick, ghosts>>

\* line 159: gmail_authenticate raises; main() ends before the loop.
StartupAuthFails ==
    /\ pc = "start"
    /\ pc' = "aborted"
    /\ UNCHANGED <<config, disk, unread, shutdown_requested, loaded, messages,
                   idx, locals, tick, ghosts>>

\* line 162: load_characters raises; the exception leaves main() before
\* the loop is entered.
StartupLoadFails ==
    /\ pc = "start"
    /\ load_characters_raises(characters_dir)
    /\ pc' = "crashed"
    /\ UNCHANGED <<config, disk, unread, shutdown_requested, loaded, messages,
                   idx, locals, tick, ghosts>>

\* Variant of the while test that does not read the flag.
WhileCheck_ignores_flag ==
    /\ pc = "while"
    /\ pc' = "poll"
    /\ tick' = 0
    /\ UNCHANGED <<config, disk, unread, shutdown_requested, loaded, messages,
                   idx, locals, ghosts>>

\* line 169: while not shutdown_requested. The counter of the sleep loop is
\* not read again before line 207 sets it anew.
WhileCheck ==
    /\ pc = "while"
    /\ pc' = IF shutdown_requested THEN "stopped" ELSE "poll"
    /\ tick' = IF shutdown_requested THEN tick ELSE 0
    /\ UNCHANGED <<config, disk, unread, shutdown_requested, loaded, messages,
                   idx, locals, ghosts>>

\* A poll started while the flag is set counts as a poll after the request.
CountPoll == IF shutdown_requested /\ polls_after_sd < 2
             THEN polls_after_sd + 1 ELSE polls_after_sd

\* Variant in which the poll marks what it returns as read.
Poll_marks_read ==
    /\ pc = "poll"
    /\ GatewayUp
    /\ messages' = unread
    /\ unread' = <<>>
    /\ idx' = 1
    /\ pc' = "for"
    /\ polls_after_sd' = CountPoll
    /\ UNCHANGED <<config, disk, shutdown_requested, loaded, locals,
                   tick, sent_count, run_count, sd_at, ticks_after_sd>>

\* lines 171 and 84-88: the poll returns the unread list.
Poll ==
    /\ pc = "poll"
    /\ GatewayUp
    /\ messages' = unread
    /\ idx' = 1
    /\ pc' = "for"
    /\ polls_after_sd' = CountPoll
    /\ UNCHANGED <<config, disk, unread, shutdown_requested, loaded, locals,
                   tick, sent_count, run_count, sd_at, ticks_after_sd>>

\* lines 171 and 86: the list call raises.
PollFails ==
    /\ pc = "poll"
    /\ Raise
    /\ polls_after_sd' = CountPoll
    /\ UNCHANGED <<config, disk, unread, shutdown_requested, loaded, tick, sent_count, run_count, sd_at, ticks_after_sd>>

\* line 172: the candidate list is exhausted; lines 206-207: the sleep
\* begins. The list is not read again before the next poll assigns it.
ForDone ==
    /\ pc = "for"
    /\ idx > Len(messages)
    /\ messages' = <<>>
    /\ idx' = 0
    /\ tick' = 0
    /\ pc' = "sleep_check"
    /\ UNCHANGED <<config, disk, unread, shutdown_requested, loaded, locals,
                   ghosts>>

\* lines 173-176: fetch the message, resolve its sender, filter.
Fetch ==
    /\ pc = "for"
    /\ idx <= Len(messages)
    /\ GatewayUp
    /\ IF ShouldSkip(get_sender(messages[idx]), REPLY_ONCE, replied_senders)
       THEN /\ idx' = idx + 1
            /\ pc' = "for"
            /\ sender' = None
       ELSE /\ idx' = idx
            /\ pc' = "generate"
            /\ sender' = get_sender(messages[idx])
    /\ UNCHANGED <<config, disk, unread, shutdown_requested, loaded, messages,
                   character, gen_out, ai_reply, used_fallback, last_sent,
                   tick, ghosts>>

\* line 173: the get call raises.
FetchFails ==
    /\ pc = "for"
    /\ idx <= Len(messages)
    /\ Raise
    /\ UNCHANGED <<config, disk, unread, shutdown_requested, loaded, tick, ghosts>>

\* lines 178-195: draw a persona, call the generator, apply the fallback policy.
Generate ==
    /\ pc = "generate"
    /\ \E c \in characters, out \in GenTexts \cup {GenError} :
         /\ character' = c
         /\ gen_out' = out
         /\ ai_reply' = ReplyBody(generate_ai_reply(out), fallback_message)
         /\ used_fallback' = UseFallback(generate_ai_reply(out))
    /\ pc' = "send"
    /\ UNCHANGED <<config, disk, unread, shutdown_requested, loaded, messages,
                   idx, sender, last_sent, tick, ghosts>>

\* lines 197-200: the gateway accepts the reply; the sender joins the set.
SendReply ==
    /\ pc = "send"
    /\ GatewayUp
    /\ last_sent' = [to |-> sender, body |-> ai_reply, signature |-> character]
    /\ sent_count' = [sent_count EXCEPT ![sender] = @ + 1]
    /\ run_count' = [run_count EXCEPT ![sender] = @ + 1]
    /\ replied_senders' = replied_senders \cup {sender}
    /\ pc' = "save"
    /\ UNCHANGED <<config, disk, unread, shutdown_requested, characters,
                   fallback_message, messages, idx, sender, character, gen_out,
                   ai_reply, used_fallback, tick, sd_at, polls_after_sd,
                   ticks_after_sd>>

\* lines 197 and 151: the send call raises.
SendFails ==
    /\ pc = "send"
    /\ Raise
    /\ UNCHANGED <<config, disk, unread, shutdown_requested, loaded, tick, ghosts>>

\* lines 201 and 104-115: save_replied_sender opens the file, writes the
\* header if the file did not exist, writes the row and closes the file; the
\* loop moves on to the next candidate.
SaveRecord ==
    /\ pc = "save"
    /\ ledger_exists' = TRUE
    /\ ledger_rows' = SavedRows(ledger_rows, ~ledger_exists, sender, character,
                                used_fallback)
    /\ idx' = idx + 1
    /\ pc' = "for"
    /\ ForgetCandidate
    /\ UNCHANGED <<config, unread, shutdown_requested, loaded, messages, tick,
                   ghosts>>

\* line 106: open raises; no file is created, nothing is written.
SaveOpenFails ==
    /\ pc = "save"
    /\ Raise
    /\ UNCHANGED <<config, disk, unread, shutdown_requested, loaded, tick,
                   ghosts>>

\* lines 106-115: open succeeds, which creates the file if there was none,
\* and the write raises when the buffer is flushed: no row reaches the file.
SaveWriteFails ==
    /\ pc = "save"
    /\ ledger_exists' = TRUE
    /\ Raise
    /\ UNCHANGED <<config, ledger_rows, unread, shutdown_requested, loaded,
                   tick, ghosts>>

\* lines 207-209: one pass of the sleep loop's header and shutdown check.
SleepCheck ==
    /\ pc = "sleep_check"
    /\ IF SleepDone(tick, shutdown_requested)
       THEN pc' = "while" /\ UNCHANGED ticks_after_sd
       ELSE /\ pc' = "sleep_tick"
            /\ ticks_after_sd' = IF shutdown_requested /\ ticks_after_sd < 2
                                 THEN ticks_after_sd + 1 ELSE ticks_after_sd
    /\ UNCHANGED <<config, disk, unread, shutdown_requested, loaded, messages,
                   idx, locals, tick, sent_count, run_count, sd_at,
                   polls_after_sd>>

\* line 210: time.sleep(1) returns.
SleepTick ==
    /\ pc = "sleep_tick"
    /\ tick' = tick + 1
    /\ pc' = "sleep_check"
    /\ UNCHANGED <<config, disk, unread, shutdown_requested, loaded, messages,
                   idx, locals, ghosts>>

\* Variant of the handler that goes straight to the next poll.
Except_retries_poll ==
    /\ pc = "except"
    /\ pc' = "poll"
    /\ UNCHANGED <<config, disk, unread, shutdown_requested, loaded, messages,
                   idx, locals, tick, ghosts>>

\* lines 214-216: the iteration-level handler logs, sleeps 5 s, loops.
Except ==
    /\ pc = "except"
    /\ pc' = "while"
    /\ UNCHANGED <<config, disk, unread, shutdown_requested, loaded, messages,
                   idx, locals, tick, ghosts>>

----------------------------------------------------------------------------
(* The environment *)

\* lines 52-60: SIGINT or SIGTERM is delivered and the flag is not yet set.
graceful_shutdown ==
    /\ pc \notin {"stopped", "aborted", "crashed"}
    /\ ~shutdown_requested
    /\ shutdown_requested' = TRUE
    /\ sd_at' = Phase(pc)
    /\ pc' = HandlerReturn(pc)
    /\ UNCHANGED <<config, disk, unread, loaded, messages, idx, locals,
                   tick, sent_count, run_count, polls_after_sd, ticks_after_sd>>

\* A message arrives in the inbox after script_start_time. Only the poll
\* reads the inbox, so arrivals are taken at the point where the poll is due
\* (and only while the gateway will still answer a poll).
NewMail ==
    /\ pc = "poll"
    /\ GatewayUp
    /\ Len(unread) < MaxUnread
    /\ \E from \in FromHeaders : unread' = Append(unread, from)
    /\ UNCHANGED <<config, disk, shutdown_requested, pc, loaded, messages, idx,
                   locals, tick, ghosts>>

\* The process ends (it returned from main, or it was killed at any point of
\* the loop) and is launched again: lines 46-47 run anew, so the flag is
\* clear and script_start_time excludes the mail received before.
Restart ==
    /\ pc # "start"
    /\ pc' = "start"
    /\ shutdown_requested' = FALSE
    /\ unread' = <<>>
    /\ replied_senders' = {}
    /\ characters' = {}
    /\ fallback_message' = <<>>
    /\ messages' = <<>>
    /\ idx' = 0
    /\ ForgetCandidate
    /\ tick' = 0
    /\ run_count' = [a \in Addresses |-> 0]
    /\ sd_at' = None
    /\ polls_after_sd' = 0
    /\ ticks_after_sd' = 0
    /\ UNCHANGED <<config, disk, sent_count>>

Loop ==
    \/ Startup \/ StartupAuthFails \/ WhileCheck \/ Poll \/ PollFails
    \/ ForDone \/ Fetch \/ FetchFails \/ Generate \/ SendReply \/ SendFails
    \/ SaveRecord \/ SaveOpenFails \/ SaveWriteFails
    \/ SleepCheck \/ SleepTick \/ Except

Next == Loop \/ graceful_shutdown \/ NewMail

NextRestart == Next \/ Restart

\* One run of the process.
Spec == Init /\ [][Next]_vars

\* Any number of runs, from the first launch on.
SpecRestart == InitFirst /\ [][NextRestart]_vars

\* Any number of runs, from the first launch on, in which every call of
\* save_replied_sender is made and succeeds: the call does not raise, and the
\* process is not ended between a send and its record.
RestartAfterRecord == pc # "save" /\ Restart

LoopRecording ==
    \/ Startup \/ StartupAuthFails \/ WhileCheck \/ Poll \/ PollFails
    \/ ForDone \/ Fetch \/ FetchFails \/ Generate \/ SendReply \/ SendFails
    \/ SaveRecord \/ SleepCheck \/ SleepTick \/ Except

NextRecording ==
    LoopRecording \/ graceful_shutdown \/ NewMail \/ RestartAfterRecord

SpecRecording == InitFirst /\ [][NextRecording]_vars

\* One run of an installation with any persona directory.
NextStartup == Next \/ StartupLoadFails
SpecStartup == InitPersonas /\ [][NextStartup]_vars

\* One run of a fresh installation in which the main thread keeps running:
\* every call of the loop returns or raises, and every sleep ends.
SpecLive == InitFirst /\ [][Next]_vars /\ WF_vars(Loop)

----------------------------------------------------------------------------
(* Properties *)

\* Number of rows of the ledger file that name s.
RecordsFor(s) ==
    Cardinality({i \in 1..Len(ledger_rows) : ledger_rows[i].sender_email = s})

\* Number of the messages list's first n entries whose sender resolves to s.
Occurrences(n, s) ==
    Cardinality({i \in 1..n : i <= Len(messages) /\ get_sender(messages[i]) = s})

\* The loop is about to take the next candidate or to start the next iteration.
AtBoundary == pc \in {"for", "poll"}

\* C1: with reply-once enabled, over any number of polls and restarts, no
\* sender is ever sent more than one reply.
C1_AtMostOneReplyEver ==
    REPLY_ONCE => \A s \in Senders : sent_count[s] <= 1

\* C2: with reply-once enabled, within one run no sender is sent more than
\* one reply, and a candidate reaches persona selection, generation and
\* sending only after the membership check found its sender absent from the
\* in-memory set, so a later message of the same poll from a sender already
\* replied to is skipped.
C2_OncePerRun ==
    REPLY_ONCE =>
        /\ \A s \in Addresses : run_count[s] <= 1
        /\ pc \in {"generate", "send"} =>
               sender \notin replied_senders /\ run_count[sender] = 0
        /\ pc = "generate" => character = None /\ gen_out = NoText

\* C2 witness: one poll returned two messages of the same sender; the first
\* was replied to and recorded, the second was skipped.
C2_Witness ==
    /\ REPLY_ONCE
    /\ pc = "for"
    /\ messages = <<"a@x", "a@x">>
    /\ idx = 3
    /\ run_count["a@x"] = 1
    /\ RecordsFor("a@x") = 1

\* C3: with reply-once enabled the ledger file holds at most one record per
\* sender, whatever number of iterations and restarts.
C3_AtMostOneRecord ==
    REPLY_ONCE => \A s \in Senders : RecordsFor(s) <= 1

\* C4: when the loop takes the next candidate or starts the next iteration,
\* every reply sent has its record in the ledger file (here: as long as all
\* replies were sent by the current run, each sender has as many records as
\* replies), whatever calls failed.
C4_EverySendRecorded ==
    (AtBoundary /\ sent_count = run_count) =>
        \A s \in Senders : RecordsFor(s) = sent_count[s]

\* C5: a step in which the send fails writes no record, leaves the in-memory
\* set alone and continues with the next candidate of the same poll result.
C5_SendFailureContinues ==
    [][(pc = "send" /\ pc' \notin {"send", "save", "start"}) =>
          /\ pc' = "for"
          /\ messages' = messages
          /\ idx' = idx + 1
          /\ UNCHANGED <<disk, replied_senders>>]_vars

\* The generator returned a text for the candidate (no error).
GenReturned(out) == out \notin {NoText, GenError}

\* The last row of the ledger file.
LastRow(rows) == rows[Len(rows)]

\* C6: when the generator fails for a candidate, the candidate goes on to
\* the send step, the body handed to the send is the fallback message
\* verbatim, and the record written for the reply has fallback_used "Yes".
C6_FallbackOnGenerationFailure ==
    [][/\ (pc = "generate" /\ gen_out' = GenError) =>
              /\ pc' = "send"
              /\ ai_reply' = fallback_message
              /\ used_fallback'
       /\ (pc = "send" /\ pc' = "save" /\ gen_out = GenError) =>
              /\ last_sent'.body = fallback_message
              /\ last_sent'.to = sender
       /\ (pc = "save" /\ pc' = "for" /\ gen_out = GenError) =>
              /\ Len(ledger_rows') > Len(ledger_rows)
              /\ LastRow(ledger_rows').sender_email = sender
              /\ LastRow(ledger_rows').fallback_used = "Yes"]_vars

\* C6 witness: the generator failed, the customised fallback message was
\* sent as the body, and the record is being written.
C6_Witness ==
    /\ pc = "save"
    /\ gen_out = GenError
    /\ fallback_message = CustomMessage
    /\ last_sent.body = CustomMessage
    /\ used_fallback

\* C7 as stated: whenever the generator returns without error, whatever the
\* text, the fallback flag is off and the body is the generator's text.
C7_Original ==
    (pc = "send" /\ GenReturned(gen_out)) =>
        ~used_fallback /\ ai_reply = Strip(gen_out)

\* C7 amended: when the generator returns a text that is not empty once
\* stripped of surrounding whitespace, the body handed to the send is that
\* stripped text and the record has fallback_used "No"; when the text is
\* empty or whitespace only, the body is the fallback message and the
\* record has fallback_used "Yes".
C7_GeneratedUnlessBlank ==
    [][/\ (pc = "generate" /\ GenReturned(gen_out')) =>
              /\ pc' = "send"
              /\ IF Strip(gen_out') # <<>>
                 THEN ai_reply' = Strip(gen_out') /\ ~used_fallback'
                 ELSE ai_reply' = fallback_message /\ used_fallback'
       /\ (pc = "send" /\ pc' = "save" /\ GenReturned(gen_out)) =>
              last_sent'.body = IF Strip(gen_out) # <<>> THEN Strip(gen_out)
                                ELSE fallback_message
       /\ (pc = "save" /\ pc' = "for" /\ GenReturned(gen_out)) =>
              /\ Len(ledger_rows') > Len(ledger_rows)
              /\ LastRow(ledger_rows').fallback_used =
                     IF Strip(gen_out) # <<>> THEN "No" ELSE "Yes"]_vars

\* C7 witness: the generator returned a whitespace-only text and the
\* fallback message was sent with the flag on.
C7_Witness ==
    /\ pc = "save"
    /\ gen_out = <<" ">>
    /\ last_sent.body = fallback_message
    /\ used_fallback

\* C8: no send is issued to the bot's own address or for a message whose
\* sender cannot be resolved, reply-once enabled or not, whatever the ledger.
C8_NeverSelfOrUnresolved ==
    /\ \A a \in Addresses \ Senders : run_count[a] = 0
    /\ pc \in {"generate", "send", "save"} => sender \in Senders
    /\ last_sent # NoSend => last_sent.to \in Senders

\* C8 witness: a poll returned a message of the bot itself and one without a
\* From header; both were passed over and nothing was sent.
C8_Witness ==
    /\ pc = "for"
    /\ messages = <<my_email, None>>
    /\ idx = 3
    /\ \A a \in Addresses : run_count[a] = 0
    /\ replied_senders # {}

\* C9: with reply-once disabled every candidate of the poll result with a
\* resolvable sender other than the bot has been sent a reply by the time the
\* loop passes it, ledger membership notwithstanding, while unresolvable and
\* self candidates never change the ledger, the in-memory set or the sends.
C9_RepeatsWhenDisabled ==
    ~REPLY_ONCE =>
        /\ pc = "for" =>
               \A s \in Senders : run_count[s] >= Occurrences(idx - 1, s)
        /\ \A a \in Addresses \ Senders :
               run_count[a] = 0 /\ a \notin replied_senders /\ RecordsFor(a) = 0

\* C9 witness: reply-once is disabled and a sender already in the in-memory
\* set and in the ledger file was replied to a second time.
C9_Witness ==
    /\ ~REPLY_ONCE
    /\ pc = "for"
    /\ idx = 2
    /\ messages = <<"a@x">>
    /\ run_count["a@x"] = 2
    /\ Len(ledger_rows) = 3
    /\ RecordsFor("a@x") = 2

\* Shutdown was requested during the sleep phase: no further sleep tick is
\* begun (only the one in progress ends), no poll is started, and the loop
\* is on its way through the while test to the stopped state.
SleepShutdownBounded ==
    sd_at = "Sleeping" =>
        /\ ticks_after_sd = 0
        /\ polls_after_sd = 0
        /\ pc \in {"sleep_check", "sleep_tick", "while", "stopped"}

\* C10: when shutdown is requested during the sleep phase, at most the sleep
\* tick in progress is completed, the rest of the interval is not waited
\* out, no poll is started, and the loop reaches the stopped state.
C10_ShutdownWhileSleeping ==
    /\ []SleepShutdownBounded
    /\ (sd_at = "Sleeping") ~> (pc = "stopped")

\* C10 witness: shutdown came during the sleep and the loop stopped before
\* the interval was over.
C10_Witness ==
    /\ pc = "stopped"
    /\ sd_at = "Sleeping"
    /\ tick < CHECK_INTERVAL

\* C11: a shutdown request that arrives while a candidate is in flight
\* changes nothing but the flag, and with the flag set every step of the
\* candidate is either a collaborator failure or the candidate's next step:
\* generation, then the send, then the record of that sender; the loop is at
\* the candidate loop again, not at a test of the flag, only after the record.
C11_InFlightCompletes ==
    [][/\ (pc \in InFlight /\ ~shutdown_requested /\ shutdown_requested') =>
              /\ pc' = pc
              /\ UNCHANGED <<disk, messages, idx, sender, character, ai_reply,
                             used_fallback, last_sent, replied_senders,
                             sent_count>>
       /\ (pc \in InFlight /\ shutdown_requested /\ pc' \notin {pc, "except"}) =>
              \/ pc = "generate" /\ pc' = "send" /\ sender' = sender
              \/ /\ pc = "send" /\ pc' = "save" /\ sender' = sender
                 /\ last_sent'.to = sender
                 /\ sent_count'[sender] = sent_count[sender] + 1
              \/ /\ pc = "save" /\ pc' = "for"
                 /\ Len(ledger_rows') > Len(ledger_rows)
                 /\ LastRow(ledger_rows').sender_email = sender
                 /\ RecordsFor(sender) < Len(ledger_rows')]_vars

\* C11 witness: shutdown was requested while the only candidate of the poll
\* result was in flight, no call failed, and the candidate has been sent its
\* reply and has its record; the flag has not been read since.
C11_Witness ==
    /\ sd_at = "Candidate"
    /\ polls_after_sd = 0
    /\ pc = "for"
    /\ messages = <<"a@x">>
    /\ idx = 2
    /\ ledger_rows = <<HeaderRow, Row("a@x", DefaultCharacter, FALSE)>>
    /\ run_count["a@x"] = 1

\* C12: the loop is in the stopped state only with the shutdown flag set,
\* whatever calls failed before; the only other end of main() is the failed
\* authentication, before anything is loaded and before the loop is entered.
C12_StoppedOnlyOnShutdown ==
    /\ pc = "stopped" => shutdown_requested
    /\ pc = "aborted" => characters = {} /\ Total(run_count) = 0

\* C12 witness: a reply was sent and its record failed, the handler caught
\* the exception, and the loop is about to poll again with the flag clear.
C12_Witness ==
    /\ pc = "poll"
    /\ ~shutdown_requested
    /\ run_count["a@x"] = 1
    /\ RecordsFor("a@x") = 0

\* C13: once set the shutdown flag stays set; from then on main() comes to
\* its end, which is the stopped state of the loop (or, for a request that
\* arrives during startup, the failed authentication before the loop); and
\* in the stopped state nothing happens any more: no poll, no generation, no
\* send, no write to the ledger file.
C13_ShutdownStops ==
    /\ [][shutdown_requested => shutdown_requested']_vars
    /\ shutdown_requested ~> (pc \in {"stopped", "aborted"})
    /\ [][pc = "stopped" => UNCHANGED vars]_vars

\* C13 witness: shutdown was requested while a candidate was in flight, the
\* candidate was replied to, and the loop has stopped.
C13_Witness ==
    /\ pc = "stopped"
    /\ shutdown_requested
    /\ sd_at = "Candidate"
    /\ run_count["b@x"] = 1

\* C14: a malformed or unreadable persona file does not end main() at
\* startup; once authentication has succeeded the loop is entered with the
\* remaining valid personas loaded (the default persona if none remains).
C14_MalformedPersonaSkipped ==
    Malformed \in characters_dir =>
        /\ pc # "crashed"
        /\ pc \notin {"start", "aborted"} =>
               characters = load_characters(characters_dir \ {Malformed})

\* The senders for whom save_replied_sender has been called and has returned
\* (in a behaviour where it never fails, and outside the call itself: those
\* who were sent a reply).
RecordedSenders == {s \in Addresses : sent_count[s] > 0}

\* C15: when every record operation succeeded, loading the ledger file
\* yields exactly the senders recorded, in this run or in earlier ones; the
\* set a restarted process holds after loading is that same set; and while
\* there is no ledger file loading yields the empty set and nobody has been
\* sent a reply.
C15_ReloadRoundTrip ==
    /\ pc # "save" =>
           load_replied_senders(ledger_exists, ledger_rows) = RecordedSenders
    /\ pc \notin {"start", "aborted", "save"} =>
           replied_senders = load_replied_senders(ledger_exists, ledger_rows)
    /\ ~ledger_exists =>
           /\ load_replied_senders(ledger_exists, ledger_rows) = {}
           /\ pc # "save" => RecordedSenders = {}

\* C15 witness: two senders were recorded by an earlier run; the process
\* was started again and has loaded both from the file.
C15_Witness ==
    /\ pc = "while"
    /\ Total(run_count) = 0
    /\ Len(ledger_rows) = 3
    /\ replied_senders = {"a@x", "b@x"}

\* C16: a step in which the poll fails (the poll is left without a result)
\* sends nothing, leaves the ledger file and the in-memory set alone, and
\* takes the loop to the start of the interval sleep, whose every tick tests
\* the shutdown flag.
C16_PollFailureSleeps ==
    [][(pc = "poll" /\ pc' \notin {"poll", "for"}) =>
          /\ pc' = "sleep_check"
          /\ tick' = 0
          /\ UNCHANGED <<disk, replied_senders, sent_count>>]_vars

\* C17: after the shutdown request at most one poll is started, and only
\* when the request arrived between the while test and the poll; the flag is
\* not read between candidates (with candidates left, the loop takes the
\* next one or fails); and every send issued with the flag set is the send
\* of the candidate at hand in the current poll result.
C17_BoundedWorkAfterShutdown ==
    /\ [](shutdown_requested =>
             /\ polls_after_sd <= 1
             /\ polls_after_sd = 1 => sd_at = "Polling")
    /\ [][(shutdown_requested /\ pc = "for" /\ idx <= Len(messages)) =>
              pc' \in {"for", "generate", "except"}]_vars
    /\ [][(shutdown_requested /\ sent_count' # sent_count) =>
              /\ pc = "send"
              /\ idx \in 1..Len(messages)
              /\ get_sender(messages[idx]) = sender
              /\ last_sent'.to = sender
              /\ sent_count' = [sent_count EXCEPT ![sender] = @ + 1]]_vars

\* C17 witness: the request arrived after the while test had passed; the
\* one further poll returned two candidates and both were replied to, one
\* after the other, with the flag set.
C17_Witness ==
    /\ ~REPLY_ONCE
    /\ sd_at = "Polling"
    /\ polls_after_sd = 1
    /\ pc = "for"
    /\ messages = <<"a@x", "b@x">>
    /\ idx = 3

\* C18: whenever the loop is about to take the next candidate or to start
\* the next iteration, the in-memory set holds exactly the senders that have
\* a row in the ledger file, whatever calls failed.
C18_MemoryMatchesLedger ==
    AtBoundary => replied_senders = {s \in Addresses : RecordsFor(s) > 0}

C20_PersonaSetNonEmpty ==
    /\ pc \notin {"start", "aborted", "crashed"} =>
           /\ characters # {}
           /\ characters = load_characters(characters_dir)
           /\ characters_dir = {} => characters = {DefaultCharacter}
    /\ pc \in {"send", "save"} => character \in characters
    /\ last_sent # NoSend => last_sent.signature \in characters
    /\ \A i \in 1..Len(ledger_rows) :
           ledger_rows[i] # HeaderRow =>
               ledger_rows[i].character_used \in characters

\* C20 witness: no persona file was found; a reply that fell back to the
\* default message was sent and recorded under the default persona.
C20_Witness ==
    /\ characters_dir = {}
    /\ pc = "for"
    /\ idx = 2
    /\ ledger_rows = <<HeaderRow, Row("b@x", DefaultCharacter, TRUE)>>

====
